---- MODULE Spec2Model ----
(***************************************************************************)
(* Model of src/chat.py: a Flask application with two routes (GET / and    *)
(* POST /chat), one shared LangChain client `llm`, and the page script     *)
(* (sendMessage, setSending, appendMessage) embedded in the HTML constant. *)
(*                                                                         *)
(* Text is modelled as a sequence of tokens (characters, or a whole fixed  *)
(* literal as one token), so that trimming, emptiness, concatenation and   *)
(* the substring test of Python's `in` are computed, not assumed.          *)
(***************************************************************************)
EXTENDS Integers, Sequences, FiniteSets, TLC

\* ------------------------------------------------------------------ bounds
NReq == 2          \* POST /chat requests the clients issue
MaxSubmits == 2    \* submits accepted by the page
MaxText == 1       \* longest text typed into the message input

Reqs == 1..NReq

\* ------------------------------------------------------------ text helpers
IsPrefixAt(needle, hay, i) ==
  \A k \in 1..Len(needle) : hay[i + k - 1] = needle[k]

\* Python `needle in hay` for two str values
Substring(needle, hay) ==
  \E i \in 1..(Len(hay) - Len(needle) + 1) : IsPrefixAt(needle, hay, i)

MessageKey == <<"m", "e", "s", "s", "a", "g", "e">>

\* -------------------------------------------------------------- JSON values
\* One record shape for every JSON value request.get_json() can return.
\*   kind  : "null" | "bool" | "num" | "str" | "list" | "obj"
\*   num   : the number (bool: 0 = false, 1 = true)
\*   chars : the characters of a str
\*   elems : the elements of a list (str elements)
\*   keys  : the keys of an object
\*   msg   : the value under "message" ([isStr, s]; isStr = FALSE is null)
NoMsg == [isStr |-> FALSE, s |-> <<>>]
StrMsg(s) == [isStr |-> TRUE, s |-> s]

JVal(kind, num, chars, elems, keys, msg) ==
  [kind |-> kind, num |-> num, chars |-> chars, elems |-> elems,
   keys |-> keys, msg |-> msg]

JNull == JVal("null", 0, <<>>, <<>>, {}, NoMsg)
JBool(b) == JVal("bool", IF b THEN 1 ELSE 0, <<>>, <<>>, {}, NoMsg)
JNum(n) == JVal("num", n, <<>>, <<>>, {}, NoMsg)
JStr(s) == JVal("str", 0, s, <<>>, {}, NoMsg)
JList(l) == JVal("list", 0, <<>>, l, {}, NoMsg)
JObj(keys, msg) == JVal("obj", 0, <<>>, <<>>, keys, msg)

\* message texts the clients send
Messages == { <<>>, <<"h", "i">>, <<"y", "o">> }

MsgValues == { StrMsg(m) : m \in Messages } \cup { NoMsg }

Bodies ==
  { JNull, JBool(FALSE), JBool(TRUE), JNum(0), JNum(5),
    JStr(<<>>), JStr(<<"h", "i">>), JStr(MessageKey),
    JStr(<<"a", " ">> \o MessageKey),
    JList(<<>>), JList(<<"x">>), JList(<<"message">>),
    JObj({}, NoMsg), JObj({"other"}, NoMsg) }
  \cup { JObj({"message"}, v) : v \in MsgValues }

\* ----------------------------------------------------------------- requests
\* ctype : "json" when the Content-Type is application/json, else "other"
\* raw   : "empty" (no body), "garbage" (bytes json.loads rejects), "json"
\* value : the parsed value when raw = "json"
Request(ctype, raw, value) == [ctype |-> ctype, raw |-> raw, value |-> value]

NoRequest == Request("none", "none", JNull)

Requests ==
  { Request("json", "json", b) : b \in Bodies }
  \cup { Request("json", "empty", JNull), Request("json", "garbage", JNull),
         Request("other", "empty", JNull),
         Request("other", "json", JObj({"message"}, StrMsg(<<"h", "i">>))) }

\* ---------------------------------------------------------------- responses
\* ctype : "json" (jsonify), "html" (Werkzeug error page / rendered template),
\*         "none" (no response was produced)
\* keys  : the keys of the JSON object; user/bot/error/details their values
Response(status, ctype, keys, user, bot, error, details) ==
  [status |-> status, ctype |-> ctype, keys |-> keys, user |-> user,
   bot |-> bot, error |-> error, details |-> details]

NoResponse == Response(0, "none", {}, <<>>, <<>>, <<>>, <<>>)

MissingField == <<"Missing 'message' field">>
LLMFailed == <<"LLM request failed">>

\* line 151
ValidationResponse ==
  Response(400, "json", {"error"}, <<>>, <<>>, MissingField, <<>>)

\* the two fields exchanged
SuccessResponse_swapped(user_message, content) ==
  Response(200, "json", {"user", "bot"}, content, user_message, <<>>, <<>>)

\* lines 158-161
SuccessResponse(user_message, content) ==
  Response(200, "json", {"user", "bot"}, user_message, content, <<>>, <<>>)

\* the details dropped from the body
FailureResponse_nodetails(details) ==
  Response(500, "json", {"error"}, <<>>, <<>>, LLMFailed, <<>>)

\* line 164
FailureResponse(details) ==
  Response(500, "json", {"error", "details"}, <<>>, <<>>, LLMFailed, details)

\* Werkzeug's page for an HTTPException raised by get_json (400 or 415)
AbortResponse(status) ==
  Response(status, "html", {}, <<>>, <<>>, <<>>, <<>>)

\* Flask's answer to an exception that leaves the view function
InternalServerError == AbortResponse(500)

\* GET / : render_template_string(HTML); HTML holds no template syntax, so the
\* rendered document is the constant itself.  ids: the element ids it declares.
IndexResponse(status, ids) == [status |-> status, ids |-> ids]

NoPage == IndexResponse(0, {})

HTML == {"chat", "message", "send"}

\* ------------------------------------------------------------------- state
VARIABLES
  flask,         \* generation of the installed Flask/Werkzeug (fixed)
  llm,           \* the module-level client: "provider" or the echo mock
  req,           \* req[r]: the request r as sent (Flask's context-local request)
  pc,            \* pc[r]: "idle" | "received" | "invoking" | "done"
  user_message,  \* local variable of chat() for request r
  prompt,        \* content handed to llm.invoke for request r
  calls,         \* calls[r]: llm.invoke calls made for request r
  result,        \* result[r]: what llm.invoke did for request r
  resp,          \* resp[r]: what the client of request r got
  indexResp,     \* the latest answer to GET /
  inputValue,    \* inputEl.value
  sendDisabled,  \* sendBtn.disabled
  inputDisabled, \* inputEl.disabled
  sendLabel,     \* sendBtn.textContent
  chatEl,        \* children of #chat, oldest first
  ppc,           \* sendMessage: "idle" | "fetching" | "settled"
  wire,          \* the settled result of the pending fetch
  posted         \* message of every POST the page issued, oldest first

serverVars ==
  <<flask, llm, req, pc, user_message, prompt, calls, result, resp,
    indexResp>>
pageVars ==
  <<inputValue, sendDisabled, inputDisabled, sendLabel, chatEl, ppc, wire,
    posted>>
vars ==
  <<flask, llm, req, pc, user_message, prompt, calls, result, resp,
    indexResp, inputValue, sendDisabled, inputDisabled, sendLabel, chatEl, ppc, wire,
    posted>>

\* -------------------------------------------------------- Python semantics
\* bool(data) is False
Falsy(d) ==
  \/ d.kind = "null"
  \/ d.kind \in {"bool", "num"} /\ d.num = 0
  \/ d.kind = "str" /\ d.chars = <<>>
  \/ d.kind = "list" /\ d.elems = <<>>
  \/ d.kind = "obj" /\ d.keys = {}

\* `"message" in data` raises TypeError (bool, int are not iterable)
InRaises(d) == d.kind \in {"bool", "num", "null"}

\* `"message" in data` for the kinds that support it
Contains(d) ==
  CASE d.kind = "obj" -> "message" \in d.keys
    [] d.kind = "list" -> \E i \in 1..Len(d.elems) : d.elems[i] = "message"
    [] d.kind = "str" -> Substring(MessageKey, d.chars)
    [] OTHER -> FALSE

\* data["message"] raises TypeError (str and list take integer indices)
SubscriptRaises(d) == d.kind # "obj"

\* HumanMessage(content=...) raises pydantic's ValidationError unless the
\* content is a str
HumanMessageRaises(v) == ~v.isStr

ValidationErrorText == <<"1 validation error for HumanMessage">>

\* request.get_json() with its default arguments (force=False, silent=False):
\*   wrong Content-Type : None before Flask 2.1, BadRequest (400) in 2.1/2.2,
\*                        UnsupportedMediaType (415) from 2.3
\*   JSON Content-Type  : the parsed value, or BadRequest (400) when
\*                        json.loads rejects the body
FlaskGens == {"pre-2.1", "2.1-2.2", "2.3+"}

GetJson(tag, status, value) == [tag |-> tag, status |-> status, value |-> value]

get_json(q, gen) ==
  IF q.ctype # "json"
    THEN CASE gen = "pre-2.1" -> GetJson("value", 0, JNull)
           [] gen = "2.1-2.2" -> GetJson("abort", 400, JNull)
           [] OTHER -> GetJson("abort", 415, JNull)
    ELSE IF q.raw = "json"
           THEN GetJson("value", 0, q.value)
           ELSE GetJson("abort", 400, JNull)

\* one request object shared by all handlers
CurrentRequest_shared(r) ==
  IF \E s \in Reqs : s < r /\ pc[s] # "idle"
    THEN req[CHOOSE s \in Reqs : s < r /\ pc[s] # "idle"]
    ELSE req[r]

\* The request the running handler sees through Flask's `request` proxy
CurrentRequest(r) == req[r]

\* chat(), lines 149-157, up to the point where llm.invoke is entered.
\*   tag "respond": the handler is over, with `response`
\*   tag "invoke" : llm.invoke is called with `message`
Began(tag, response, message) ==
  [tag |-> tag, response |-> response, message |-> message]

chat_begin(q, gen) ==
  LET j == get_json(q, gen)
      data == j.value
  IN  IF j.tag = "abort" THEN Began("respond", AbortResponse(j.status), <<>>)
      ELSE IF Falsy(data) THEN Began("respond", ValidationResponse, <<>>)
      ELSE IF InRaises(data) THEN Began("respond", InternalServerError, <<>>)
      ELSE IF ~Contains(data) THEN Began("respond", ValidationResponse, <<>>)
      ELSE IF SubscriptRaises(data)
        THEN Began("respond", InternalServerError, <<>>)
      ELSE IF HumanMessageRaises(data.msg)
        THEN Began("respond", FailureResponse(ValidationErrorText), <<>>)
      ELSE Began("invoke", NoResponse, data.msg.s)

\* What llm.invoke can do with a prompt.
\*   "content"       : returns a message whose .content is text
\*   "Exception"     : raises an Exception whose str() is text
\*   "BaseException" : raises KeyboardInterrupt / SystemExit / GeneratorExit
Outcome(tag, text) == [tag |-> tag, text |-> text]

NoOutcome == Outcome("none", <<>>)

Replies == { <<>>, <<"hi there">> }
ErrorTexts == { <<>>, <<"Connection error.">> }

Invoke(client, p) ==
  IF client = "echo"
    THEN { Outcome("content", p) }
    ELSE { Outcome("content", t) : t \in Replies }
         \cup { Outcome("Exception", t) : t \in ErrorTexts }
         \cup { Outcome("BaseException", <<>>) }

\* chat(), lines 157-164, from the return of llm.invoke
chat_end(msg, o) ==
  CASE o.tag = "content" -> SuccessResponse(msg, o.text)
    [] o.tag = "Exception" -> FailureResponse(o.text)
    [] OTHER -> NoResponse

\* a page that depends on what /chat has answered
index_stateful ==
  IF \E r \in Reqs : pc[r] = "done" /\ resp[r].status # 200
    THEN IndexResponse(500, {})
    ELSE IndexResponse(200, HTML)

\* index(), lines 143-145
index == IndexResponse(200, HTML)

\* ----------------------------------------------------------- server steps
\* a client sends POST /chat
Post(r, q) ==
  /\ pc[r] = "idle"
  /\ req' = [req EXCEPT ![r] = q]
  /\ pc' = [pc EXCEPT ![r] = "received"]
  /\ UNCHANGED <<flask, llm, user_message, prompt, calls, result, resp,
                 indexResp>>
  /\ UNCHANGED pageVars

ChatBegin(r) ==
  /\ pc[r] = "received"
  /\ LET b == chat_begin(CurrentRequest(r), flask)
     IN  IF b.tag = "respond"
           THEN /\ resp' = [resp EXCEPT ![r] = b.response]
                /\ pc' = [pc EXCEPT ![r] = "done"]
                /\ UNCHANGED <<user_message, prompt, calls>>
           ELSE /\ user_message' = [user_message EXCEPT ![r] = b.message]
                /\ prompt' = [prompt EXCEPT ![r] = b.message]
                /\ calls' = [calls EXCEPT ![r] = @ + 1]
                /\ pc' = [pc EXCEPT ![r] = "invoking"]
                /\ UNCHANGED resp
  /\ UNCHANGED <<flask, llm, req, result, indexResp>>
  /\ UNCHANGED pageVars

ChatEnd(r) ==
  /\ pc[r] = "invoking"
  /\ \E o \in Invoke(llm, prompt[r]) :
       /\ result' = [result EXCEPT ![r] = o]
       /\ resp' = [resp EXCEPT ![r] = chat_end(user_message[r], o)]
  /\ pc' = [pc EXCEPT ![r] = "done"]
  /\ UNCHANGED <<flask, llm, req, user_message, prompt, calls, indexResp>>
  /\ UNCHANGED pageVars

Index ==
  /\ indexResp' = index
  /\ UNCHANGED <<flask, llm, req, pc, user_message, prompt, calls, result,
                 resp>>
  /\ UNCHANGED pageVars

\* ------------------------------------------------------------- page script
Alphabet == {" ", "a"}

Texts == UNION { [1..n -> Alphabet] : n \in 0..MaxText }

IsSpace(c) == c = " "

RECURSIVE TrimStart(_)
TrimStart(s) ==
  IF s # <<>> /\ IsSpace(Head(s)) THEN TrimStart(Tail(s)) ELSE s

RECURSIVE TrimEnd(_)
TrimEnd(s) ==
  IF s # <<>> /\ IsSpace(s[Len(s)])
    THEN TrimEnd(SubSeq(s, 1, Len(s) - 1))
    ELSE s

\* String.prototype.trim, line 89
trim(s) == TrimEnd(TrimStart(s))

\* A property of a parsed JSON object: def = FALSE is `undefined`
Field(def, s) == [def |-> def, s |-> s]
Undefined == Field(FALSE, <<>>)
Str(s) == Field(TRUE, s)

\* JavaScript truthiness of a string-or-undefined value
Truthy(v) == v.def /\ v.s # <<>>

\* a || b
JsOr(a, b) == IF Truthy(a) THEN a ELSE b

\* What the promise returned by fetch settles to.
\*   tag   : "reject" (network failure, emsg = e.message) | "response"
\*   ok    : res.ok
\*   parse : what res.json() gives: "fail" (rejects), "null", "obj"
\*   bot, error, details : properties of the parsed object
FetchResult(tag, ok, parse, bot, error, details, emsg) ==
  [tag |-> tag, ok |-> ok, parse |-> parse, bot |-> bot, error |-> error,
   details |-> details, emsg |-> emsg]

NoWire == FetchResult("none", FALSE, "fail", Undefined, Undefined, Undefined, <<>>)

Rejected(emsg) ==
  FetchResult("reject", FALSE, "fail", Undefined, Undefined, Undefined, emsg)

Answered(ok, parse, bot, error, details) ==
  FetchResult("response", ok, parse, bot, error, details, <<>>)

FailedToFetch == <<"Failed to fetch">>
SyntaxErrorMessage == <<"Unexpected token < in JSON at position 0">>
TypeErrorMessage == <<"Cannot read properties of null">>

FetchResults ==
  { Rejected(FailedToFetch) }
  \cup { Answered(TRUE, "obj", Str(b), Undefined, Undefined) : b \in Replies }
  \cup { Answered(FALSE, "obj", Undefined, Str(MissingField), Undefined) }
  \cup { Answered(FALSE, "obj", Undefined, Str(LLMFailed), Str(d)) :
           d \in ErrorTexts }
  \cup { Answered(ok, "fail", Undefined, Undefined, Undefined) :
           ok \in BOOLEAN }
  \cup { Answered(ok, "null", Undefined, Undefined, Undefined) :
           ok \in BOOLEAN }
  \cup { Answered(ok, "obj", Undefined, Undefined, Undefined) :
           ok \in BOOLEAN }
  \cup { Answered(TRUE, "obj", Undefined, Str(LLMFailed), Undefined),
         Answered(FALSE, "obj", Undefined, Undefined, Str(<<"detail">>)) }

Bubble(who, text) == [who |-> who, text |-> text]

\* `who` ignored
appendMessage_anon(children, text, who) ==
  Append(children, Bubble("bot", text))

\* appendMessage(text, who), lines 71-80: one child appended to #chat
appendMessage(children, text, who) ==
  Append(children, Bubble(IF who = "user" THEN "user" ELSE "bot", text))

Controls(send, input, label) ==
  [sendDisabled |-> send, inputDisabled |-> input, sendLabel |-> label]

\* the input never re-enabled
setSending_stuck(isSending) ==
  Controls(isSending, TRUE, IF isSending THEN "Sending..." ELSE "Send")

\* setSending(isSending), lines 82-86
setSending(isSending) ==
  Controls(isSending, isSending,
           IF isSending THEN "Sending..." ELSE "Send")

\* `if (!text) return;`, line 90
Rejects(text) == text = <<>>

\* sendMessage, lines 101-118: the text of the bubble appended once the
\* fetch has settled to w.  A TypeError or a rejected res.json() inside the
\* try block lands in the catch clause.
settleText(w) ==
  IF w.tag = "reject" THEN <<"Network error: ">> \o w.emsg
  ELSE IF ~w.ok
    THEN IF w.parse = "null"
           THEN <<"Network error: ">> \o TypeErrorMessage
           ELSE LET error == IF w.parse = "fail"
                               THEN Str(<<"unknown">>) ELSE w.error
                    details == IF w.parse = "fail" THEN Undefined
                               ELSE w.details
                IN  <<"Error: ">>
                      \o JsOr(error, JsOr(details, Str(<<"Request failed">>))).s
  ELSE IF w.parse = "fail" THEN <<"Network error: ">> \o SyntaxErrorMessage
  ELSE IF w.parse = "null" THEN <<"Network error: ">> \o TypeErrorMessage
  ELSE IF Truthy(w.bot) THEN w.bot.s
  ELSE IF Truthy(w.error) THEN <<"Error: ">> \o w.error.s
  ELSE <<"No response from server.">>

\* the user edits the message input
Type(t) ==
  /\ ~inputDisabled
  /\ inputValue # t
  /\ inputValue' = t
  /\ UNCHANGED <<sendDisabled, inputDisabled, sendLabel, chatEl, ppc, wire,
                 posted>>
  /\ UNCHANGED serverVars

\* sendMessage, lines 88-100, up to the await of fetch
sendMessage ==
  LET text == trim(inputValue)
  IN  IF Rejects(text)
        THEN UNCHANGED pageVars
        ELSE /\ Len(posted) < MaxSubmits
             /\ chatEl' = appendMessage(chatEl, text, "user")
             /\ inputValue' = <<>>
             /\ LET c == setSending(TRUE)
                IN  /\ sendDisabled' = c.sendDisabled
                    /\ inputDisabled' = c.inputDisabled
                    /\ sendLabel' = c.sendLabel
             /\ posted' = Append(posted, text)
             /\ ppc' = "fetching"
             /\ UNCHANGED wire

\* click on #send (line 134); a disabled button dispatches no click
Click ==
  /\ ~sendDisabled
  /\ sendMessage
  /\ UNCHANGED serverVars

\* Ctrl+Enter in #message (lines 125-131); a disabled textarea gets no keys
CtrlEnter ==
  /\ ~inputDisabled
  /\ sendMessage
  /\ UNCHANGED serverVars

\* the promise of fetch settles
Network(w) ==
  /\ ppc = "fetching"
  /\ wire' = w
  /\ ppc' = "settled"
  /\ UNCHANGED <<inputValue, sendDisabled, inputDisabled, sendLabel, chatEl,
                 posted>>
  /\ UNCHANGED serverVars

\* sendMessage, lines 101-121, resumed with the settled fetch
FetchSettle ==
  /\ ppc = "settled"
  /\ chatEl' = appendMessage(chatEl, settleText(wire), "bot")
  /\ LET c == setSending(FALSE)
     IN  /\ sendDisabled' = c.sendDisabled
         /\ inputDisabled' = c.inputDisabled
         /\ sendLabel' = c.sendLabel
  /\ wire' = NoWire
  /\ ppc' = "idle"
  /\ UNCHANGED <<inputValue, posted>>
  /\ UNCHANGED serverVars

\* ---------------------------------------------------------- specifications
InitServer(client, gens) ==
  /\ flask \in gens
  /\ llm = client
  /\ req = [r \in Reqs |-> NoRequest]
  /\ pc = [r \in Reqs |-> "idle"]
  /\ user_message = [r \in Reqs |-> <<>>]
  /\ prompt = [r \in Reqs |-> <<>>]
  /\ calls = [r \in Reqs |-> 0]
  /\ result = [r \in Reqs |-> NoOutcome]
  /\ resp = [r \in Reqs |-> NoResponse]
  /\ indexResp = NoPage

InitPage ==
  /\ inputValue = <<>>
  /\ sendDisabled = FALSE
  /\ inputDisabled = FALSE
  /\ sendLabel = "Send"
  /\ chatEl = <<>>
  /\ ppc = "idle"
  /\ wire = NoWire
  /\ posted = <<>>

Init == InitServer("provider", FlaskGens) /\ InitPage

InitEcho == InitServer("echo", FlaskGens) /\ InitPage

\* a page loaded from a server that has served nothing else
InitLoaded == InitServer("provider", {"2.3+"}) /\ InitPage

Next ==
  \/ \E r \in Reqs : \E q \in Requests : Post(r, q)
  \/ \E r \in Reqs : ChatBegin(r)
  \/ \E r \in Reqs : ChatEnd(r)
  \/ Index

NextPage ==
  \/ \E t \in Texts : Type(t)
  \/ Click
  \/ CtrlEnter
  \/ \E w \in FetchResults : Network(w)
  \/ FetchSettle

\* the server under arbitrary clients and an arbitrary provider
Spec == Init /\ [][Next]_vars

\* the server with the module-level client replaced by an echo mock
SpecEcho == InitEcho /\ [][Next]_vars

\* one loaded page
SpecPage == InitLoaded /\ [][NextPage]_vars

\* the page under the browser's event loop: a pending fetch settles and the
\* continuation of an awaited promise runs
LiveSpecPage == SpecPage /\ WF_vars(\E w \in FetchResults : Network(w)) /\ WF_vars(FetchSettle)

\* ------------------------------------------------------------------ claims
\* the body was parsed as JSON
Parsed(q) == q.ctype = "json" /\ q.raw = "json"

\* the parsed body is an object with a `message` key
HasMessage(q) ==
  Parsed(q) /\ q.value.kind = "obj" /\ "message" \in q.value.keys

\* the parsed body is {"message": m} with m a string
WellFormed(q) == HasMessage(q) /\ q.value.msg.isStr

Done(r) == pc[r] = "done"

\* C1: a request whose parsed JSON body lacks `message` is answered with
\* HTTP 400 and {"error": "Missing 'message' field"}, every time it is sent.
C1_LacksMessageIs400 ==
  \A r \in Reqs :
    Done(r) /\ Parsed(req[r]) /\ ~HasMessage(req[r])
      => resp[r] = Response(400, "json", {"error"}, <<>>, <<>>,
                            MissingField, <<>>)

\* C2: a request whose body is missing or is not parsable as JSON gets the
\* same HTTP 400 {"error": "Missing 'message' field"} as a parsed body
\* without `message`.
C2_UnparsableIs400 ==
  \A r \in Reqs :
    Done(r) /\ req[r].raw \in {"empty", "garbage"}
      => resp[r] = Response(400, "json", {"error"}, <<>>, <<>>,
                            MissingField, <<>>)

\* C3: when the body is {"message": m} with m a string and llm.invoke
\* returns the reply text t, the response is HTTP 200 with exactly
\* {"user": m, "bot": t}.
C3_SuccessBody ==
  \A r \in Reqs :
    Done(r) /\ WellFormed(req[r]) /\ result[r].tag = "content"
      => resp[r] = Response(200, "json", {"user", "bot"},
                            req[r].value.msg.s, result[r].text, <<>>, <<>>)

C3_Witness ==
  \E r \in Reqs :
    /\ Done(r) /\ WellFormed(req[r]) /\ result[r].tag = "content"
    /\ req[r].value.msg.s = <<"h", "i">>
    /\ resp[r].bot = <<"hi there">>

\* C4 as claimed: when llm.invoke raises, the response is HTTP 500 with
\* error "LLM request failed" and a non-empty details string, and nothing
\* leaves the handler.
C4_NonEmptyDetails ==
  \A r \in Reqs :
    Done(r) /\ result[r].tag \in {"Exception", "BaseException"}
      => /\ resp[r].status = 500
         /\ resp[r].ctype = "json"
         /\ resp[r].keys = {"error", "details"}
         /\ resp[r].error = LLMFailed
         /\ resp[r].details # <<>>

\* C4 as amended: when llm.invoke raises an instance of Exception e, the
\* response is HTTP 500 with error "LLM request failed" and details equal to
\* str(e), which is empty when e carries no message.
C4_DetailsIsStr ==
  \A r \in Reqs :
    Done(r) /\ result[r].tag = "Exception"
      => resp[r] = Response(500, "json", {"error", "details"}, <<>>, <<>>,
                            LLMFailed, result[r].text)

C4_Witness ==
  \E r \in Reqs :
    /\ Done(r) /\ result[r].tag = "Exception" /\ result[r].text = <<>>
    /\ resp[r].status = 500 /\ resp[r].details = <<>>

\* C5: with an upstream client that echoes its prompt, every well-formed
\* request hands llm.invoke its own message and is answered with `user` and
\* `bot` both equal to its own message, whatever the other requests do.
C5_NoCrossTalk ==
  \A r \in Reqs :
    WellFormed(req[r]) =>
      /\ pc[r] = "invoking" => prompt[r] = req[r].value.msg.s
      /\ Done(r) => resp[r] = Response(200, "json", {"user", "bot"},
                                       req[r].value.msg.s,
                                       req[r].value.msg.s, <<>>, <<>>)

C5_Witness ==
  \E r, s \in Reqs :
    /\ WellFormed(req[r]) /\ WellFormed(req[s])
    /\ req[r].value.msg.s # req[s].value.msg.s
    /\ Done(r) /\ resp[r].bot = req[r].value.msg.s
    /\ pc[s] = "invoking"

\* C6: every request, whatever its body, ends in one documented outcome:
\* 200 with `bot` and no `error`, or 400/500 with `error` and no `bot`.
C6_DocumentedOutcome ==
  \A r \in Reqs :
    Done(r) =>
      \/ /\ resp[r].status = 200
         /\ "bot" \in resp[r].keys /\ "error" \notin resp[r].keys
      \/ /\ resp[r].status \in {400, 500}
         /\ "error" \in resp[r].keys /\ "bot" \notin resp[r].keys

\* C9: GET / answers 200 with the same document, which holds the send
\* control and the message input, whatever /chat has done before.
C9_IndexIsConstant ==
  indexResp # NoPage =>
    /\ indexResp.status = 200
    /\ indexResp.ids = {"chat", "message", "send"}
    /\ {"send", "message"} \subseteq indexResp.ids

C9_Witness ==
  /\ indexResp # NoPage
  /\ \E r, s \in Reqs :
       /\ Done(r) /\ resp[r].status = 200
       /\ Done(s) /\ resp[s].status \in {400, 500}

\* the `if` of line 150 let the request through
PassesValidation(q) ==
  LET j == get_json(q, flask)
  IN  j.tag = "value" /\ ~Falsy(j.value) /\ ~InRaises(j.value)
      /\ Contains(j.value)

\* C10: llm.invoke is called exactly once for a request that passes
\* validation, never for one answered with 400, and exactly once for one
\* answered with 500.
C10_OneCall ==
  \A r \in Reqs :
    Done(r) =>
      /\ PassesValidation(req[r]) => calls[r] = 1
      /\ resp[r].status = 400 => calls[r] = 0
      /\ resp[r].status = 500 => calls[r] = 1

\* C7: once a submit has been accepted the send control and the input are
\* re-enabled after the fetch has settled, whatever it settled to, and they
\* are never disabled while no request is being handled.
C7_Reenabled ==
  /\ [](ppc = "idle" => ~sendDisabled /\ ~inputDisabled)
  /\ (sendDisabled \/ inputDisabled)
       ~> (ppc = "idle" /\ ~sendDisabled /\ ~inputDisabled)

C7_Witness ==
  /\ ppc = "idle" /\ ~sendDisabled /\ ~inputDisabled /\ sendLabel = "Send"
  /\ Len(chatEl) = 4
  /\ chatEl[2].text = <<"Network error: ">> \o FailedToFetch
  /\ chatEl[4].text = <<"Error: ", "unknown">>

\* the fetch settled to an HTTP 200 whose body carries `bot`
Success(w) == w.tag = "response" /\ w.ok /\ w.parse = "obj" /\ w.bot.def

\* the fetch was rejected, or settled to a non-2xx response
Failure(w) == w.tag = "reject" \/ (w.tag = "response" /\ ~w.ok)

ErrorBubble(b) ==
  b.who = "bot" /\ b.text # <<>>
  /\ Head(b.text) \in {"Error: ", "Network error: "}

\* #chat alternates user and bot bubbles, one pair per POST, the user bubble
\* carrying the posted text; while a request is in flight the bot bubble of
\* the last pair is still missing and both controls are disabled.
C8_Shape ==
  /\ Len(chatEl) =
       IF ppc = "idle" THEN 2 * Len(posted) ELSE 2 * Len(posted) - 1
  /\ \A i \in 1..Len(chatEl) :
       chatEl[i].who = IF i % 2 = 1 THEN "user" ELSE "bot"
  /\ \A i \in 1..Len(posted) : chatEl[2 * i - 1].text = posted[i]
  /\ ppc # "idle" => sendDisabled /\ inputDisabled

\* a submit is accepted only with non-blank text, which is what is posted
C8_SubmitStep ==
  ppc = "idle" /\ ppc' = "fetching"
    => /\ trim(inputValue) # <<>>
       /\ posted' = Append(posted, trim(inputValue))
       /\ chatEl' = Append(chatEl, Bubble("user", trim(inputValue)))

\* with blank text nothing is appended and nothing is posted
C8_BlankStep ==
  ppc = "idle" /\ trim(inputValue) = <<>>
    => chatEl' = chatEl /\ posted' = posted /\ ppc' = "idle"

\* C8 as claimed: one user bubble per accepted submit, then one bot-side
\* bubble per response, which is the reply text on success and an error
\* bubble on an HTTP error or a network failure; blank text does nothing.
C8_ReplyTextOnSuccess ==
  /\ []C8_Shape
  /\ [][/\ C8_SubmitStep
        /\ C8_BlankStep
        /\ ppc = "settled" /\ ppc' = "idle"
             => /\ Len(chatEl') = Len(chatEl) + 1
                /\ Success(wire)
                     => chatEl'[Len(chatEl')] = Bubble("bot", wire.bot.s)
                /\ Failure(wire) => ErrorBubble(chatEl'[Len(chatEl')])]_vars

\* C8 as amended: as claimed, except that the bot-side bubble of a success
\* is the reply text only when the reply is non-empty; for an empty reply
\* it reads "No response from server.".
C8_ReplyTextUnlessEmpty ==
  /\ []C8_Shape
  /\ [][/\ C8_SubmitStep
        /\ C8_BlankStep
        /\ ppc = "settled" /\ ppc' = "idle"
             => /\ Len(chatEl') = Len(chatEl) + 1
                /\ Success(wire) /\ wire.bot.s # <<>>
                     => chatEl'[Len(chatEl')] = Bubble("bot", wire.bot.s)
                /\ Success(wire) /\ wire.bot.s = <<>>
                     => chatEl'[Len(chatEl')]
                          = Bubble("bot", <<"No response from server.">>)
                /\ Failure(wire) => ErrorBubble(chatEl'[Len(chatEl')])]_vars

C8_Witness ==
  /\ ppc = "idle" /\ Len(posted) = 2 /\ Len(chatEl) = 4
  /\ chatEl[1] = Bubble("user", <<"a">>)
  /\ chatEl[2] = Bubble("bot", <<"hi there">>)
  /\ chatEl[4] = Bubble("bot", <<"No response from server.">>)

====
